---- MODULE Spec2Model ----
(***************************************************************************)
(* A model of manycore_svg: the colour bucket mapper, the grid composer,   *)
(* the information overlay generator and the reconfiguration call          *)
(* SVG::update_configurable_information.                                   *)
(*                                                                         *)
(* Rust arrays and vectors are 0-indexed; the sequences below are          *)
(* 1-indexed, so bounds[m] of the source is bounds[m + 1] here.            *)
(***************************************************************************)
EXTENDS Integers, Sequences, FiniteSets, TLC

VARIABLES
    bs,             \* colour bucket mapper: the call's input and its result
    gs,             \* grid composer: position in the loop of From<&ManycoreSystem>
    ge,             \* overlay generator: the call's input and its result
    manycore,       \* the architecture description handed to every call
    svg,            \* the document (struct SVG)
    configuration,  \* the caller's Configuration object (passed as &mut)
    hist            \* the last two reconfiguration calls: inputs and results

vars == <<bs, gs, ge, manycore, svg, configuration, hist>>

Idle == [pc |-> "idle"]

Max(a, b) == IF a >= b THEN a ELSE b
Min(a, b) == IF a <= b THEN a ELSE b

(***************************************************************************)
(* Colour bucket mapper                                                    *)
(***************************************************************************)

\* Largest bound / value the bucket mapper is tried with.
MaxBound == 4

\* (InformationLayer::binary_search_left_insertion_point in information_layer.rs is
\* the same function, with max computed as bounds.len() - 1.)
\* while l <= r { m = l + (r - l) / 2; if bounds[m] >= val { r = m - 1 } else { l = m + 1 } }
\* Returns l at loop exit.
RECURSIVE SearchLoop(_, _, _, _)
SearchLoop(bounds, val, l, r) ==
    IF l <= r
    THEN LET m   == l + ((r - l) \div 2)
             cmp == bounds[m + 1]
         IN  IF cmp >= val
             THEN SearchLoop(bounds, val, l, m - 1)
             ELSE SearchLoop(bounds, val, m + 1, r)
    ELSE l

\* The bug of a search that forgets to step down to the lower bucket.
binary_search_no_step_down(bounds, val) ==
    LET max_i == 3
        l     == SearchLoop(bounds, val, 0, max_i)
    IN  Max(Min(l, max_i), 0)

binary_search_left_insertion_point(bounds, val) ==
    LET max_i       == 3
        l           == SearchLoop(bounds, val, 0, max_i)
        corrected_l == Max(Min(l, max_i), 0)
    IN  IF corrected_l > 0 /\ bounds[corrected_l + 1] > val
        THEN corrected_l - 1
        ELSE corrected_l

BoundsSet == [1..4 -> 0..MaxBound]

InitBucket ==
    /\ bs \in [pc : {"call"}, bounds : BoundsSet, val : 0..(MaxBound + 1), idx : {-1}]
    /\ gs = Idle
    /\ ge = Idle
    /\ manycore = Idle
    /\ svg = Idle
    /\ configuration = Idle
    /\ hist = Idle

BucketCall ==
    /\ bs.pc = "call"
    /\ bs' = [bs EXCEPT !.pc = "done",
                        !.idx = binary_search_left_insertion_point(bs.bounds, bs.val)]
    /\ UNCHANGED <<gs, ge, manycore, svg, configuration, hist>>

NextBucket == BucketCall

SpecBucket == InitBucket /\ [][NextBucket]_vars

Ascending(b) == b[1] <= b[2] /\ b[2] <= b[3] /\ b[3] <= b[4]
StrictlyAscending(b) == b[1] < b[2] /\ b[2] < b[3] /\ b[3] < b[4]

\* The three cases of the bucket property, indices as in the source (0..3).
BucketCases(b, v, idx) ==
    /\ (v < b[1] => idx = 0)
    /\ (v >= b[4] => idx = 3)
    /\ \A i \in 0..2 : (b[i + 1] <= v /\ v < b[i + 2]) => idx = i

\* C1 as stated: for every ascending bounds array, equal neighbouring bounds
\* allowed, the result is 0 below bounds[0], 3 at or above bounds[3], and i
\* when bounds[i] <= value < bounds[i+1].
C1_Original ==
    (bs.pc = "done" /\ Ascending(bs.bounds)) => BucketCases(bs.bounds, bs.val, bs.idx)

\* C1 amended: with strictly ascending bounds the three cases hold; with
\* ascending bounds that repeat a value, the result is 0 below bounds[0], the
\* lowest index whose bound equals the value when there is one, and
\* otherwise the highest index whose bound is below the value.
C1_BucketIndex ==
    bs.pc = "done" /\ Ascending(bs.bounds) =>
        LET b == bs.bounds
            v == bs.val
            eq == {i \in 0..3 : b[i + 1] = v}
            lo == {i \in 0..3 : b[i + 1] < v}
        IN  /\ bs.idx \in 0..3
            /\ (StrictlyAscending(b) => BucketCases(b, v, bs.idx))
            /\ (v < b[1] => bs.idx = 0)
            /\ (eq # {} => bs.idx \in eq /\ \A i \in eq : bs.idx <= i)
            /\ (eq = {} /\ lo # {} => bs.idx \in lo /\ \A i \in lo : bs.idx >= i)

\* A value strictly between two distinct bounds was classified by stepping down.
C1_Witness ==
    /\ bs.pc = "done"
    /\ StrictlyAscending(bs.bounds)
    /\ bs.bounds[2] < bs.val /\ bs.val < bs.bounds[3]
    /\ bs.idx = 1

(***************************************************************************)
(* Grid composer: impl From<&ManycoreSystem> for SVG                       *)
(***************************************************************************)

\* Largest declared grid and longest core list the composer is tried with.
MaxRows == 3
MaxCols == 3
MaxGridCores == 9

\* Geometry constants of the processing group module; lib.rs uses them by name.
BLOCK_LENGTH == 175
BLOCK_DISTANCE == 120
CORE_ROUTER_STROKE_WIDTH == 1

\* Rust integer division truncates toward zero.
TruncDiv(a, b) == IF a >= 0 THEN a \div b ELSE -((-a) \div b)

\* ViewBox::new / ViewBox::reset: the base extent of the canvas.
ViewBoxReset(width, height) ==
    [x |-> -TruncDiv(width, 2), y |-> -TruncDiv(height, 2),
     width |-> width, height |-> height]

BASE_STYLE == <<".baseFill{fill: #e5e5e5;}">>

StyleDefault == BASE_STYLE

\* let width = ...; let height = ...; let top_left = ...; SVG::new(...)
SVGNew(rows, columns) ==
    LET width  == (columns * BLOCK_LENGTH) + ((columns - 1) * BLOCK_DISTANCE)
                      + (CORE_ROUTER_STROKE_WIDTH * 2)
        height == (rows * BLOCK_LENGTH) + ((rows - 1) * BLOCK_DISTANCE)
                      + (CORE_ROUTER_STROKE_WIDTH * 2)
    IN  [view_box            |-> ViewBoxReset(width, height),
         style               |-> StyleDefault,
         groups              |-> <<>>,
         processing_group    |-> <<>>,
         connections_group   |-> <<>>,
         sinks_sources_group |-> {},
         rows                |-> rows,
         columns             |-> columns,
         width               |-> width,
         height              |-> height,
         top_left            |-> [x |-> -TruncDiv(width, 2), y |-> -TruncDiv(height, 2)]]

\* let c = u8::try_from(i % usize::try_from(columns)...)
GridColumn(i, columns) == i % columns

\* The bug of counting a new row at the very first core too.
NextRowAlways(r, i, c) == IF c = 0 THEN r + 1 ELSE r

\* if i > 0 && c == 0 { r += 1; }
NextRow(r, i, c) == IF i > 0 /\ c = 0 THEN r + 1 ELSE r

\* core.is_on_edge(columns, rows): the cell lies on the border of the declared grid.
IsOnEdge(r, c, rows, columns) ==
    r = 0 \/ c = 0 \/ r = rows - 1 \/ c = columns - 1

\* One iteration of the loop over the cores, for the core at index i
\* (core ids are the list indices). doc is the document under construction.
ComposeCore(doc, r, i) ==
    LET c  == GridColumn(i, doc.columns)
        r2 == NextRow(r, i, c)
    IN  [r   |-> r2,
         doc |-> [doc EXCEPT
                    !.processing_group = Append(@, [id |-> i, r |-> r2, c |-> c]),
                    !.connections_group = Append(@, [id |-> i, r |-> r2, c |-> c]),
                    !.sinks_sources_group =
                        IF IsOnEdge(r2, c, doc.rows, doc.columns) THEN @ \cup {i} ELSE @]]

InitGrid ==
    /\ gs \in [pc : {"start"}, rows : 0..MaxRows, columns : 0..MaxCols,
               ncores : 0..MaxGridCores, i : {0}, r : {0}, doc : {<<>>},
               result : {"none"}]
    /\ bs = Idle
    /\ ge = Idle
    /\ manycore = Idle
    /\ svg = Idle
    /\ configuration = Idle
    /\ hist = Idle

GridUnchanged == UNCHANGED <<bs, ge, manycore, svg, configuration, hist>>

\* The statements before the loop.
ComposeStart ==
    /\ gs.pc = "start"
    /\ gs' = [gs EXCEPT !.pc = "loop", !.doc = SVGNew(gs.rows, gs.columns)]
    /\ GridUnchanged

\* One loop iteration. i % 0 panics.
ComposeStep ==
    /\ gs.pc = "loop"
    /\ gs.i < gs.ncores
    /\ gs.columns > 0
    /\ LET n == ComposeCore(gs.doc, gs.r, gs.i)
       IN  gs' = [gs EXCEPT !.i = @ + 1, !.r = n.r, !.doc = n.doc]
    /\ GridUnchanged

ComposePanic ==
    /\ gs.pc = "loop"
    /\ gs.i < gs.ncores
    /\ gs.columns = 0
    /\ gs' = [gs EXCEPT !.pc = "panic", !.result = "panic"]
    /\ GridUnchanged

\* The loop is over: From::from returns the document. There is no other exit.
ComposeReturn ==
    /\ gs.pc = "loop"
    /\ gs.i = gs.ncores
    /\ gs' = [gs EXCEPT !.pc = "done", !.result = "document"]
    /\ GridUnchanged

NextGrid == ComposeStart \/ ComposeStep \/ ComposePanic \/ ComposeReturn

SpecGrid == InitGrid /\ [][NextGrid]_vars

\* C7: when the core count differs from rows * columns, building the
\* document reports an error to the caller instead of producing a document.
\* (Stated generously: any ending other than a document counts as the error.)
C7_MismatchIsError ==
    (gs.pc \in {"done", "panic"} /\ gs.ncores # gs.rows * gs.columns)
        => gs.result # "document"

\* C8: every core index i below rows * columns gets column i mod columns and
\* a row with i = row * columns + column, column < columns, and no two
\* indices share a position.
C8_GridPosition ==
    gs.pc \in {"loop", "done"} =>
        LET g == gs.doc.processing_group
            inGrid == {k \in 1..Len(g) : k - 1 < gs.rows * gs.columns}
        IN  /\ \A k \in inGrid :
                /\ g[k].id = k - 1
                /\ k - 1 = g[k].r * gs.columns + g[k].c
                /\ g[k].c < gs.columns
                /\ g[k].c = (k - 1) % gs.columns
                /\ g[k].r < gs.rows
            /\ \A k, j \in inGrid : (g[k].r = g[j].r /\ g[k].c = g[j].c) => k = j

\* A full 2 x 3 grid was composed; the last core sits at row 1, column 2.
C8_Witness ==
    /\ gs.pc = "done"
    /\ gs.rows = 2 /\ gs.columns = 3 /\ gs.ncores = 6
    /\ gs.doc.processing_group[6] = [id |-> 5, r |-> 1, c |-> 2]

(***************************************************************************)
(* Attribute configuration model and attribute values                      *)
(***************************************************************************)

\* Reserved keys of manycore_parser.
ID_KEY == "@id"
COORDINATES_KEY == "@coordinates"
ROUTING_KEY == "@routingAlgorithm"
BORDER_ROUTERS_KEY == "@borderRouters"

\* Every key the model uses, in the order a BTreeMap<String, _> iterates
\* them (byte order of the strings).
AllKeys == <<"@age", BORDER_ROUTERS_KEY, COORDINATES_KEY, ID_KEY, "@load", ROUTING_KEY>>

\* The keys of a map in iteration order: configuration.keys().
RECURSIVE KeysFrom(_, _)
KeysFrom(map, n) ==
    IF n > Len(AllKeys) THEN <<>>
    ELSE IF AllKeys[n] \in DOMAIN map
         THEN <<AllKeys[n]>> \o KeysFrom(map, n + 1)
         ELSE KeysFrom(map, n + 1)

Keys(map) == KeysFrom(map, 1)

\* enum FieldConfiguration
Text(title) == [t |-> "Text", title |-> title]
Fill(cc) == [t |-> "Fill", colour_config |-> cc]
ColouredText(title, cc) == [t |-> "ColouredText", title |-> title, colour_config |-> cc]
Routing(algorithm) == [t |-> "Routing", algorithm |-> algorithm]
Boolean(b) == [t |-> "Boolean", b |-> b]

\* Option<T>
None == [some |-> FALSE]
Some(v) == [some |-> TRUE, v |-> v]

\* Attribute values are strings: sequences of characters.
DigitValue ==
    [ch \in {"0", "1", "2", "3", "4", "5", "6", "7", "8", "9"} |->
        CASE ch = "0" -> 0 [] ch = "1" -> 1 [] ch = "2" -> 2 [] ch = "3" -> 3
          [] ch = "4" -> 4 [] ch = "5" -> 5 [] ch = "6" -> 6 [] ch = "7" -> 7
          [] ch = "8" -> 8 [] ch = "9" -> 9]

RECURSIVE DigitsValue(_, _)
DigitsValue(str, acc) ==
    IF str = <<>> THEN acc ELSE DigitsValue(Tail(str), acc * 10 + DigitValue[Head(str)])

\* value.parse::<u64>(): an optional leading "+", then one or more decimal
\* digits and nothing else. Err is None. (The strings of the model are far
\* too short to overflow a u64.)
ParseU64(str) ==
    LET digits == IF str # <<>> /\ Head(str) = "+" THEN Tail(str) ELSE str
    IN  IF digits # <<>> /\ \A n \in 1..Len(digits) : digits[n] \in DOMAIN DigitValue
        THEN Some(DigitsValue(digits, 0))
        ELSE None

\* i32::saturating_add with a non-negative right operand.
I32Max == 2147483647
SaturatingAdd(a, b) == IF a > I32Max - b THEN I32Max ELSE a + b

OFFSET_FROM_BORDER == 1
FONT_SIZE_WITH_OFFSET == 18
TEXT_GROUP_FILTER == "url(#textBackground)"

\* TextInformation::new: a missing fill is black.
TextInformationNew(x, y, text_anchor, fill, value) ==
    [x |-> x, y |-> y, text_anchor |-> text_anchor,
     dominant_baseline |-> "text-before-edge",
     fill |-> IF fill.some THEN fill.v ELSE "black",
     value |-> value]

\* ProcessingInformation::default()
ProcessingInformationDefault == [filter |-> None, information |-> <<>>]

\* format!("{}: {}", title, value) with value a string of characters
FormatLine(title, value) == <<title, ": ">> \o value

\* format!("{}: {}", title, target.id()) with id a number
FormatIdLine(title, id) == <<title, ": ", id>>

\* format!("\n#{}{} {{fill: {};}}", target.variant(), target.id(), colour)
FormatFillRule(variant, id, colour) == [selector |-> <<"#", variant, id>>, fill |-> colour]

\* get_attribute_colour(bounds, colours, attribute_value)
get_attribute_colour(bounds, colours, attribute_value) ==
    LET value_num == ParseU64(attribute_value)
    IN  IF value_num.some
        THEN Some(colours[binary_search_left_insertion_point(bounds, value_num.v) + 1])
        ELSE None

(***************************************************************************)
(* Information overlay generator: generate_with_id                         *)
(*                                                                         *)
(* st is the state the function works on: its locals base_x and base_y,    *)
(* the group it fills (&mut ProcessingInformation) and the shared          *)
(* stylesheet text (&mut String), a sequence of rules.                     *)
(***************************************************************************)

\* base_x = base_x.saturating_add(OFFSET_FROM_BORDER); same for base_y
GenPadding(st) ==
    [st EXCEPT !.base_x = SaturatingAdd(@, OFFSET_FROM_BORDER),
               !.base_y = SaturatingAdd(@, OFFSET_FROM_BORDER)]

\* The bug of a cursor that moves by the padding instead of the line height.
PushLineShortStep(st, text_anchor, fill, value) ==
    [st EXCEPT
        !.group.information =
            Append(@, TextInformationNew(st.base_x, st.base_y, text_anchor, fill, value)),
        !.base_y = SaturatingAdd(@, OFFSET_FROM_BORDER)]

\* group.information.push(TextInformation::new(..)); base_y += FONT_SIZE_WITH_OFFSET
PushLine(st, text_anchor, fill, value) ==
    [st EXCEPT
        !.group.information =
            Append(@, TextInformationNew(st.base_x, st.base_y, text_anchor, fill, value)),
        !.base_y = SaturatingAdd(@, FONT_SIZE_WITH_OFFSET)]

\* The bug of an identity line that does not move the cursor down.
GenIdentityKeepCursor(st, config, target, text_anchor) ==
    IF ID_KEY \in DOMAIN config /\ config[ID_KEY].t = "Text"
    THEN [st EXCEPT !.group.information =
            Append(@, TextInformationNew(st.base_x, st.base_y, text_anchor, None,
                                         FormatIdLine(config[ID_KEY].title, target.id)))]
    ELSE st

\* if let Some(config) = configuration.get(ID_KEY) { match ... }
GenIdentity(st, config, target, text_anchor) ==
    IF ID_KEY \in DOMAIN config /\ config[ID_KEY].t = "Text"
    THEN PushLine(st, text_anchor, None, FormatIdLine(config[ID_KEY].title, target.id))
    ELSE st

\* The bug of marking the group for a background filter before the parse is known
\* to have succeeded.
FillAttributeFilterFirst(st, colour_config, value, target) ==
    LET value_num == ParseU64(value)
        marked    == [st EXCEPT !.group.filter = Some(TEXT_GROUP_FILTER)]
    IN  IF value_num.some
        THEN LET fill_idx == binary_search_left_insertion_point(colour_config.bounds,
                                                                value_num.v)
             IN  [marked EXCEPT !.css = Append(@,
                    FormatFillRule(target.variant, target.id,
                                   colour_config.colours[fill_idx + 1]))]
        ELSE marked

\* The bug of indexing the palette with the insertion point before the step down.
FillAttributeRawIndex(st, colour_config, value, target) ==
    LET value_num == ParseU64(value)
    IN  IF value_num.some
        THEN LET fill_idx == binary_search_no_step_down(colour_config.bounds, value_num.v)
             IN  [st EXCEPT
                    !.css = Append(@, FormatFillRule(target.variant, target.id,
                                                     colour_config.colours[fill_idx + 1])),
                    !.group.filter = Some(TEXT_GROUP_FILTER)]
        ELSE st

\* FieldConfiguration::Fill(colour_config) => { ... }
FillAttribute(st, colour_config, value, target) ==
    LET value_num == ParseU64(value)
    IN  IF value_num.some
        THEN LET fill_idx == binary_search_left_insertion_point(colour_config.bounds,
                                                                value_num.v)
             IN  [st EXCEPT
                    !.css = Append(@, FormatFillRule(target.variant, target.id,
                                                     colour_config.colours[fill_idx + 1])),
                    !.group.filter = Some(TEXT_GROUP_FILTER)]
        ELSE st

\* The bug of treating an unparsable value as the Fill arm does: no line at all.
ColouredTextDropUnparsable(st, title, colour_config, value, text_anchor) ==
    LET fill == get_attribute_colour(colour_config.bounds, colour_config.colours, value)
    IN  IF fill.some THEN PushLine(st, text_anchor, fill, FormatLine(title, value)) ELSE st

\* FieldConfiguration::ColouredText(title, colour_config) => { ... }
ColouredTextAttribute(st, title, colour_config, value, text_anchor) ==
    LET fill == get_attribute_colour(colour_config.bounds, colour_config.colours, value)
    IN  PushLine(st, text_anchor, fill, FormatLine(title, value))

\* One iteration of `for k in configuration.keys()`, map being the element's
\* other_attributes.
GenAttribute(st, k, config, map, target, text_anchor) ==
    IF k = ID_KEY \/ k = COORDINATES_KEY
    THEN st
    ELSE IF k \in DOMAIN config /\ k \in DOMAIN map
         THEN LET field_configuration == config[k]
                  value == map[k]
              IN  CASE field_configuration.t = "Text" ->
                         PushLine(st, text_anchor, None,
                                  FormatLine(field_configuration.title, value))
                    [] field_configuration.t = "Fill" ->
                         FillAttribute(st, field_configuration.colour_config, value, target)
                    [] field_configuration.t = "ColouredText" ->
                         ColouredTextAttribute(st, field_configuration.title,
                                               field_configuration.colour_config,
                                               value, text_anchor)
                    [] OTHER -> st
         ELSE st

RECURSIVE GenAttributes(_, _, _, _, _, _)
GenAttributes(st, keys, config, map, target, text_anchor) ==
    IF keys = <<>> THEN st
    ELSE GenAttributes(GenAttribute(st, Head(keys), config, map, target, text_anchor),
                       Tail(keys), config, map, target, text_anchor)

\* The whole function; returns the group and the stylesheet it leaves.
generate_with_id(base_x, base_y, config, target, group, text_anchor, css) ==
    LET st0 == [base_x |-> base_x, base_y |-> base_y, group |-> group, css |-> css]
        st1 == GenIdentity(GenPadding(st0), config, target, text_anchor)
    IN  IF target.other_attributes.some
        THEN GenAttributes(st1, Keys(config), config,
                           target.other_attributes.v, target, text_anchor)
        ELSE st1

(***************************************************************************)
(* One call of generate_with_id, one loop iteration per step               *)
(***************************************************************************)

\* Attribute values the elements carry.
V5 == <<"5">>
V7 == <<"7">>
V25 == <<"2", "5">>
V40 == <<"4", "0">>
V100 == <<"1", "0", "0">>
VPlus5 == <<"+", "5">>
VAbc == <<"a", "b", "c">>

\* ColourConfig { bounds, colours }
LoadColours == [bounds |-> <<10, 20, 30, 40>>, colours |-> <<"c0", "c1", "c2", "c3">>]
AgeColours == [bounds |-> <<5, 5, 7, 9>>, colours |-> <<"a0", "a1", "a2", "a3">>]

\* A BTreeMap from the entries that are present.
MakeMap(opts) == [k \in {j \in DOMAIN opts : opts[j].some} |-> opts[k].v]

AttributeOptions(title, cc) ==
    {None, Some(Text(title)), Some(Fill(cc)), Some(ColouredText(title, cc)),
     Some(Boolean(TRUE))}

GenConfigurations ==
    {MakeMap([k \in {ID_KEY, COORDINATES_KEY, "@age", "@load"} |->
                CASE k = ID_KEY -> i
                  [] k = COORDINATES_KEY -> c
                  [] k = "@age" -> a
                  [] k = "@load" -> l]) :
        i \in {None, Some(Text("ID")), Some(Fill(LoadColours))},
        c \in {None, Some(Text("Coordinates"))},
        a \in AttributeOptions("Age", AgeColours),
        l \in AttributeOptions("Load", LoadColours)}

GenAttributeMaps ==
    {None} \cup
    {Some(MakeMap([k \in {"@age", "@load"} |-> IF k = "@age" THEN a ELSE l])) :
        a \in {None, Some(V7), Some(VAbc)},
        l \in {None, Some(V5), Some(V25), Some(V40), Some(V100), Some(VPlus5), Some(VAbc)}}

\* A core with id 7 (text anchored at "start") or a router with id 0 ("end").
GenTargets ==
    {[variant |-> v.variant, id |-> v.id, text_anchor |-> v.text_anchor,
      other_attributes |-> m] :
        v \in {[variant |-> "c", id |-> 7, text_anchor |-> "start"],
               [variant |-> "r", id |-> 0, text_anchor |-> "end"]},
        m \in GenAttributeMaps}

InitGen ==
    /\ \E config \in GenConfigurations, target \in GenTargets,
          base_y \in {0, I32Max - 20} :
        ge = [pc     |-> "start",
              config |-> config,
              target |-> target,
              keys   |-> <<>>,
              key    |-> "",
              origin |-> [x |-> 10, y |-> base_y],
              st     |-> [base_x |-> 10, base_y |-> base_y,
                          group |-> ProcessingInformationDefault,
                          css |-> BASE_STYLE],
              before |-> [base_x |-> 10, base_y |-> base_y,
                          group |-> ProcessingInformationDefault,
                          css |-> BASE_STYLE]]
    /\ bs = Idle
    /\ gs = Idle
    /\ manycore = Idle
    /\ svg = Idle
    /\ configuration = Idle
    /\ hist = Idle

GenUnchanged == UNCHANGED <<bs, gs, manycore, svg, configuration, hist>>

\* Padding and the identity line; then the loop, when the element has attributes.
GenStart ==
    /\ ge.pc = "start"
    /\ ge' = [ge EXCEPT
                !.pc = IF ge.target.other_attributes.some THEN "loop" ELSE "return",
                !.keys = Keys(ge.config),
                !.key = ID_KEY,
                !.before = ge.st,
                !.st = GenIdentity(GenPadding(ge.st), ge.config, ge.target,
                                   ge.target.text_anchor)]
    /\ GenUnchanged

\* for k in configuration.keys() { ... }: the iteration for the next key
GenLoop ==
    /\ ge.pc = "loop"
    /\ ge.keys # <<>>
    /\ ge' = [ge EXCEPT
                !.keys = Tail(@),
                !.key = Head(ge.keys),
                !.before = ge.st,
                !.st = GenAttribute(ge.st, Head(ge.keys), ge.config,
                                    ge.target.other_attributes.v, ge.target,
                                    ge.target.text_anchor)]
    /\ GenUnchanged

GenReturn ==
    /\ \/ ge.pc = "return"
       \/ ge.pc = "loop" /\ ge.keys = <<>>
    /\ ge' = [ge EXCEPT !.pc = "done", !.key = "", !.before = ge.st]
    /\ GenUnchanged

NextGen == GenStart \/ GenLoop \/ GenReturn

SpecGen == InitGen /\ [][NextGen]_vars

\* The loop has just processed key ge.key, configured as variant t, for an
\* element that has a value for it.
JustProcessed(t) ==
    /\ ge.pc = "loop"
    /\ ge.key \notin {"", ID_KEY, COORDINATES_KEY}
    /\ ge.key \in DOMAIN ge.config
    /\ ge.config[ge.key].t = t
    /\ ge.key \in DOMAIN ge.target.other_attributes.v

LastValue == ge.target.other_attributes.v[ge.key]

\* C9: a Fill key whose value does not parse as an unsigned integer appends
\* nothing to the stylesheet, leaves the filter flag as it was, emits no
\* text line and does not move the vertical cursor.
C9_FillUnparsable ==
    (JustProcessed("Fill") /\ ~ParseU64(LastValue).some) =>
        /\ ge.st.css = ge.before.css
        /\ ge.st.group.filter = ge.before.group.filter
        /\ ge.st.group.information = ge.before.group.information
        /\ ge.st.base_y = ge.before.base_y

\* An unparsable Fill value was processed for a group with no filter set.
C9_Witness ==
    /\ JustProcessed("Fill")
    /\ LastValue = VAbc
    /\ ~ge.before.group.filter.some
    /\ ~ge.st.group.filter.some

\* C10: a Fill key whose value parses as v appends exactly one rule, for
\* the selector #<variant><id> and the colour colours[bucket_index(bounds, v)],
\* and sets the filter flag; with bounds [10,20,30,40] the values 5, 25, 40
\* and 100 select colours[0], colours[1], colours[3] and colours[3].
C10_FillRule ==
    (JustProcessed("Fill") /\ ParseU64(LastValue).some) =>
        LET cc == ge.config[ge.key].colour_config
            v  == ParseU64(LastValue).v
            n  == Len(ge.st.css)
        IN  /\ n = Len(ge.before.css) + 1
            /\ SubSeq(ge.st.css, 1, n - 1) = ge.before.css
            /\ ge.st.css[n].selector = <<"#", ge.target.variant, ge.target.id>>
            /\ ge.st.css[n].fill =
                   cc.colours[binary_search_left_insertion_point(cc.bounds, v) + 1]
            /\ ge.st.group.filter = Some(TEXT_GROUP_FILTER)
            /\ ge.st.group.information = ge.before.group.information
            /\ (cc.bounds = <<10, 20, 30, 40>> =>
                   /\ (v = 5 => ge.st.css[n].fill = cc.colours[1])
                   /\ (v = 25 => ge.st.css[n].fill = cc.colours[2])
                   /\ (v = 40 => ge.st.css[n].fill = cc.colours[4])
                   /\ (v = 100 => ge.st.css[n].fill = cc.colours[4]))

\* The load "40" of core 7 was given the colour of the last bucket.
C10_Witness ==
    /\ JustProcessed("Fill")
    /\ ge.key = "@load" /\ LastValue = V40
    /\ ge.st.css[Len(ge.st.css)] = [selector |-> <<"#", "c", 7>>, fill |-> "c3"]

\* C11: a ColouredText key for which the element has a value emits exactly
\* one line "<label>: <value>" at the cursor, filled with
\* colours[bucket_index(bounds, v)] when the value parses as v and with
\* black when it does not; the stylesheet is not modified.
C11_ColouredText ==
    JustProcessed("ColouredText") =>
        LET fc     == ge.config[ge.key]
            cc     == fc.colour_config
            parsed == ParseU64(LastValue)
            n      == Len(ge.st.group.information)
            line   == ge.st.group.information[n]
        IN  /\ n = Len(ge.before.group.information) + 1
            /\ SubSeq(ge.st.group.information, 1, n - 1) = ge.before.group.information
            /\ line.value = <<fc.title, ": ">> \o LastValue
            /\ line.x = ge.before.base_x
            /\ line.y = ge.before.base_y
            /\ (parsed.some =>
                  line.fill = cc.colours[binary_search_left_insertion_point(cc.bounds,
                                                                            parsed.v) + 1])
            /\ (~parsed.some => line.fill = "black")
            /\ (cc.bounds = <<10, 20, 30, 40>> /\ LastValue = V25 => line.fill = "c1")
            /\ ge.st.css = ge.before.css
            /\ ge.st.group.filter = ge.before.group.filter

\* The load "abc" was shown as a black line.
C11_Witness ==
    /\ JustProcessed("ColouredText")
    /\ ge.key = "@load" /\ LastValue = VAbc
    /\ ge.st.group.information[Len(ge.st.group.information)].fill = "black"
    /\ ge.st.group.information[Len(ge.st.group.information)].value
           = <<"Load", ": ", "a", "b", "c">>

IdentityIsText == ID_KEY \in DOMAIN ge.config /\ ge.config[ID_KEY].t = "Text"

Started == ge.pc \in {"loop", "return", "done"}

\* Padding and identity line are done and no loop iteration has run yet.
JustStarted == ge.pc \in {"loop", "return"} /\ ge.keys = Keys(ge.config) /\ ge.key = ID_KEY

\* C12: with the identity key configured as Text(label) the line
\* "<label>: <id>" is the first record of the group, at the padded origin
\* and above every other line, also for an element without attributes;
\* with the identity key absent or of another variant the first step emits
\* nothing.
C12_IdentityLine ==
    Started =>
        LET info == ge.st.group.information
        IN  IF IdentityIsText
            THEN /\ Len(info) >= 1
                 /\ info[1].value = <<ge.config[ID_KEY].title, ": ", ge.target.id>>
                 /\ info[1].fill = "black"
                 /\ info[1].x = ge.origin.x + OFFSET_FROM_BORDER
                 /\ info[1].y = ge.origin.y + OFFSET_FROM_BORDER
                 /\ \A k \in 2..Len(info) : info[k].y > info[1].y
                 /\ (~ge.target.other_attributes.some => Len(info) = 1)
            ELSE /\ (JustStarted => info = <<>>)
                 /\ (~ge.target.other_attributes.some => info = <<>>)
                 /\ \A k \in 1..Len(info) : info[k].value[1] \in {"Age", "Load"}

\* Core 7 shows "ID: 7" above its age and its load.
C12_Witness ==
    /\ ge.pc = "done"
    /\ ge.target.id = 7
    /\ Len(ge.st.group.information) = 3
    /\ ge.st.group.information[1].value = <<"ID", ": ", 7>>
    /\ ge.st.group.information[2].value = <<"Age", ": ", "7">>
    /\ ge.st.group.information[2].y = ge.st.group.information[1].y + FONT_SIZE_WITH_OFFSET

\* The key the loop has just processed emits a line: it is no reserved key,
\* it is configured as Text or ColouredText and the element has a value for it.
EmitsLine(k) ==
    /\ k \notin {ID_KEY, COORDINATES_KEY}
    /\ k \in DOMAIN ge.config
    /\ ge.config[k].t \in {"Text", "ColouredText"}
    /\ k \in DOMAIN ge.target.other_attributes.v

\* The labels of the lines a finished call must have emitted, in key order.
RECURSIVE ExpectedLabels(_)
ExpectedLabels(n) ==
    IF n > Len(AllKeys) THEN <<>>
    ELSE IF ge.target.other_attributes.some /\ EmitsLine(AllKeys[n])
         THEN <<ge.config[AllKeys[n]].title>> \o ExpectedLabels(n + 1)
         ELSE ExpectedLabels(n + 1)

\* origin_y + padding + k * line_height, saturating at i32::MAX
LineY(origin_y, k) ==
    LET d == OFFSET_FROM_BORDER + k * FONT_SIZE_WITH_OFFSET
    IN  IF origin_y > I32Max - d THEN I32Max ELSE origin_y + d

\* C13: the records of a group follow the identity line in ascending key
\* order, the k-th record (from 0) sits at origin_y + padding + k *
\* line_height, saturating; a loop iteration that emits a Text or
\* ColouredText line adds one record and moves the cursor one line down,
\* every other iteration (Fill, Routing, Boolean, a reserved key, a key the
\* element has no value for) leaves records and cursor unchanged.
C13_LineOrder ==
    Started =>
        LET info == ge.st.group.information
        IN  /\ \A k \in 1..Len(info) : info[k].y = LineY(ge.origin.y, k - 1)
            /\ ge.st.base_y = LineY(ge.origin.y, Len(info))
            /\ (ge.pc = "loop" /\ ~JustStarted =>
                  IF EmitsLine(ge.key)
                  THEN /\ Len(info) = Len(ge.before.group.information) + 1
                       /\ info[Len(info)].value[1] = ge.config[ge.key].title
                       /\ ge.st.base_y =
                              (IF ge.before.base_y > I32Max - FONT_SIZE_WITH_OFFSET
                               THEN I32Max
                               ELSE ge.before.base_y + FONT_SIZE_WITH_OFFSET)
                  ELSE /\ info = ge.before.group.information
                       /\ ge.st.base_y = ge.before.base_y)
            /\ (ge.pc = "done" =>
                  [k \in 1..Len(info) |-> info[k].value[1]]
                      = (IF IdentityIsText THEN <<ge.config[ID_KEY].title>> ELSE <<>>)
                        \o ExpectedLabels(1))

\* A Fill key and the reserved keys left no gap between the identity line
\* and the load line, and the cursor saturated after the second line.
C13_Witness ==
    /\ ge.pc = "done"
    /\ ge.origin.y = I32Max - 20
    /\ DOMAIN ge.config = {ID_KEY, COORDINATES_KEY, "@age", "@load"}
    /\ ge.config[ID_KEY].t = "Text"
    /\ ge.config["@age"].t = "Fill"
    /\ ge.config["@load"].t = "ColouredText"
    /\ Len(ge.st.group.information) = 2
    /\ [k \in 1..2 |-> ge.st.group.information[k].y] = <<I32Max - 19, I32Max - 1>>
    /\ ge.st.base_y = I32Max

(***************************************************************************)
(* The architecture description and the document built from it             *)
(***************************************************************************)

\* The architectures the reconfiguration call is tried on have two columns
\* and up to MaxArchRows rows.
MaxArchRows == 2

\* Geometry constants of the processing group module.
SIDE_LENGTH == 100
HALF_SIDE_LENGTH == 50
ROUTER_OFFSET == 75

\* The attributes of the core at index i: loads 5, 25, 40, 100 for the first
\* four cores and a textual load after them; every other core has an age.
CoreAttributes(i) ==
    LET load == CASE i = 0 -> V5 [] i = 1 -> V25 [] i = 2 -> V40 [] i = 3 -> V100
                  [] OTHER -> VAbc
    IN  Some(MakeMap([k \in {"@age", "@load"} |->
                        IF k = "@load" THEN Some(load)
                        ELSE IF i % 2 = 0 THEN Some(V7) ELSE None]))

\* The attributes of the router of the core at index i.
RouterAttributes(i) ==
    IF i = 0 THEN Some(MakeMap([k \in {"@age"} |-> Some(VAbc)])) ELSE None

\* A ManycoreSystem whose core list fills its grid.
Manycore(rows, columns) ==
    [rows    |-> rows,
     columns |-> columns,
     cores   |-> [n \in 1..(rows * columns) |->
                    [variant |-> "c", id |-> n - 1,
                     other_attributes |-> CoreAttributes(n - 1),
                     router |-> [variant |-> "r", id |-> n - 1,
                                 other_attributes |-> RouterAttributes(n - 1)]]]]

\* The loop of From<&ManycoreSystem> run to its end.
RECURSIVE ComposeAll(_, _, _, _)
ComposeAll(doc, r, i, ncores) ==
    IF i = ncores THEN doc
    ELSE LET n == ComposeCore(doc, r, i)
         IN  ComposeAll(n.doc, n.r, i + 1, ncores)

\* impl From<&ManycoreSystem> for SVG
SVGFrom(mc) == ComposeAll(SVGNew(mc.rows, mc.columns), 0, 0, Len(mc.cores))

\* The routing collaborator, manycore.route(algorithm): an error for an
\* algorithm it does not support, else the links carrying load for each
\* RoutingTarget (the cores of the first column are also sinks).
Route(mc, algorithm) ==
    IF algorithm \in {"RowFirst", "ColumnFirst"}
    THEN [ok    |-> TRUE,
          links |-> [t \in ({<<"Core", n - 1>> : n \in 1..Len(mc.cores)} \cup
                            {<<"Sink", n - 1>> : n \in {j \in 1..Len(mc.cores) :
                                                        (j - 1) % mc.columns = 0}})
                        |-> {<<t[2], IF t[1] = "Core" THEN "South" ELSE "West">>}]]
    ELSE [ok |-> FALSE, error |-> "RoutingError"]

\* The closure get_core_loads of update_configurable_information.
get_core_loads(links_with_load, i) ==
    IF links_with_load.some
    THEN LET links_loads == links_with_load.v
             core_key    == <<"Core", i>>
             sink_key    == <<"Sink", i>>
             ret == (IF core_key \in DOMAIN links_loads THEN links_loads[core_key] ELSE {})
                    \cup
                    (IF sink_key \in DOMAIN links_loads THEN links_loads[sink_key] ELSE {})
         IN  IF Cardinality(ret) > 0 THEN Some(ret) ELSE None
    ELSE None

\* Core::get_move_coordinates / Router::get_move_coordinates: the top-left
\* corner of the box at grid position (r, c).
CoreMoveCoordinates(r, c) ==
    [x |-> c * (BLOCK_LENGTH + BLOCK_DISTANCE),
     y |-> r * (BLOCK_LENGTH + BLOCK_DISTANCE) + ROUTER_OFFSET]

RouterMoveCoordinates(r, c) ==
    [x |-> c * (BLOCK_LENGTH + BLOCK_DISTANCE) + ROUTER_OFFSET,
     y |-> r * (BLOCK_LENGTH + BLOCK_DISTANCE)]

\* InformationLayer::new: the coordinates label, the core group and the
\* router group of one cell; css is the stylesheet both generator calls
\* append to. Returns the layer and the stylesheet.
\* (What the layer shows of core_loads and routing_configuration belongs to
\* the channel rendering, which this model leaves out.)
InformationLayerNew(config, core, css, core_loads, processing_group, routing_configuration) ==
    LET r       == processing_group.r
        c       == processing_group.c
        corePos == CoreMoveCoordinates(r, c)
        coordinates ==
            IF COORDINATES_KEY \in DOMAIN config.core_config
            THEN Some(TextInformationNew(corePos.x + HALF_SIDE_LENGTH,
                                         corePos.y + SIDE_LENGTH, "middle", None,
                                         <<"(", r + 1, ",", c + 1, ")">>))
            ELSE None
        coreGen == generate_with_id(corePos.x, corePos.y, config.core_config, core,
                                    ProcessingInformationDefault, "start", css)
        routerPos == RouterMoveCoordinates(r, c)
        routerGen == generate_with_id(routerPos.x + (SIDE_LENGTH - 2 * OFFSET_FROM_BORDER),
                                      routerPos.y - ROUTER_OFFSET,
                                      config.router_config, core.router,
                                      ProcessingInformationDefault, "end", coreGen.css)
    IN  [layer |-> [core_group   |-> coreGen.group,
                    router_group |-> routerGen.group,
                    coordinates  |-> coordinates],
         css   |-> routerGen.css]

(***************************************************************************)
(* SVG::update_configurable_information                                    *)
(***************************************************************************)

\* BTreeMap::remove(key): the map without the key
MapRemove(map, key) == [k \in (DOMAIN map) \ {key} |-> map[k]]

\* BTreeMap::is_empty
IsEmpty(map) == DOMAIN map = {}

\* let not_empty_configuration = ...
not_empty_configuration(config) ==
    \/ ~IsEmpty(config.core_config)
    \/ ~IsEmpty(config.router_config)
    \/ ~IsEmpty(config.channel_config)

\* Style::base(): the stylesheet that also styles the border routers.
StyleBase == <<".baseFill{fill: #e5e5e5;} <border router rules>">>

\* The extent each side of the canvas grows by to show the edge decorations.
EdgeExtent == 200

\* ViewBox::insert_edges
ViewBoxInsertEdges(vb) ==
    [x |-> vb.x - EdgeExtent, y |-> vb.y - EdgeExtent,
     width |-> vb.width + 2 * EdgeExtent, height |-> vb.height + 2 * EdgeExtent]

\* String::from(&ViewBox): "<min-x> <min-y> <width> <height>"
ViewBoxString(vb) == <<vb.x, " ", vb.y, " ", vb.width, " ", vb.height>>

\* The bug of reading the routing entry with get, leaving it in the map.
RoutingPhaseKeepKey(mc, config) ==
    LET channel == config.channel_config
    IN  IF ROUTING_KEY \in DOMAIN channel /\ channel[ROUTING_KEY].t = "Routing"
        THEN LET routed == Route(mc, channel[ROUTING_KEY].algorithm)
             IN  IF routed.ok
                 THEN [ok |-> TRUE, config |-> config,
                       links_with_load |-> Some(routed.links),
                       routing_configuration |-> Some(channel[ROUTING_KEY])]
                 ELSE [ok |-> FALSE, config |-> config, error |-> routed.error]
        ELSE [ok |-> TRUE, config |-> config,
              links_with_load |-> None, routing_configuration |-> None]

\* Routing phase: channel_config.remove(ROUTING_KEY) and, for a Routing
\* entry, manycore.route(algorithm)?.
RoutingPhase(mc, config) ==
    LET channel == config.channel_config
        removed == [config EXCEPT !.channel_config = MapRemove(channel, ROUTING_KEY)]
    IN  IF ROUTING_KEY \in DOMAIN channel /\ channel[ROUTING_KEY].t = "Routing"
        THEN LET routed == Route(mc, channel[ROUTING_KEY].algorithm)
             IN  IF routed.ok
                 THEN [ok |-> TRUE, config |-> removed,
                       links_with_load |-> Some(routed.links),
                       routing_configuration |-> Some(channel[ROUTING_KEY])]
                 ELSE [ok |-> FALSE, config |-> removed, error |-> routed.error]
        ELSE [ok |-> TRUE, config |-> removed,
              links_with_load |-> None, routing_configuration |-> None]

\* The bug of a reset that keeps the overlay groups of the previous call.
ResetPhaseKeepGroups(doc) ==
    [doc EXCEPT !.view_box = ViewBoxReset(doc.width, doc.height)]

\* Reset phase: groups.clear(); view_box.reset(width, height)
ResetPhase(doc) ==
    [doc EXCEPT !.groups = <<>>,
                !.view_box = ViewBoxReset(doc.width, doc.height)]

\* The bug of resetting the stylesheet only when the border key is present.
BorderPhaseKeepStyle(doc, config) ==
    LET channel == config.channel_config
        removed == [config EXCEPT !.channel_config = MapRemove(channel, BORDER_ROUTERS_KEY)]
    IN  IF BORDER_ROUTERS_KEY \in DOMAIN channel
        THEN IF channel[BORDER_ROUTERS_KEY].t = "Boolean" /\ channel[BORDER_ROUTERS_KEY].b
             THEN [doc |-> [doc EXCEPT !.style = StyleBase,
                                       !.view_box = ViewBoxInsertEdges(@)],
                   config |-> removed]
             ELSE [doc |-> [doc EXCEPT !.style = StyleDefault], config |-> removed]
        ELSE [doc |-> doc, config |-> removed]

\* The bug of growing the document's own extent, not only its view box.
BorderPhaseGrowsDocument(doc, config) ==
    LET channel == config.channel_config
        removed == [config EXCEPT !.channel_config = MapRemove(channel, BORDER_ROUTERS_KEY)]
    IN  IF /\ BORDER_ROUTERS_KEY \in DOMAIN channel
           /\ channel[BORDER_ROUTERS_KEY].t = "Boolean"
           /\ channel[BORDER_ROUTERS_KEY].b
        THEN [doc |-> [doc EXCEPT !.style = StyleBase,
                                  !.view_box = ViewBoxInsertEdges(@),
                                  !.width = @ + 2 * EdgeExtent,
                                  !.height = @ + 2 * EdgeExtent],
              config |-> removed]
        ELSE [doc |-> [doc EXCEPT !.style = StyleDefault], config |-> removed]

\* The bug of showing the border routers whenever the key is present.
BorderPhaseAnyEntry(doc, config) ==
    LET channel == config.channel_config
        removed == [config EXCEPT !.channel_config = MapRemove(channel, BORDER_ROUTERS_KEY)]
    IN  IF BORDER_ROUTERS_KEY \in DOMAIN channel
        THEN [doc |-> [doc EXCEPT !.style = StyleBase,
                                  !.view_box = ViewBoxInsertEdges(@)],
              config |-> removed]
        ELSE [doc |-> [doc EXCEPT !.style = StyleDefault], config |-> removed]

\* Border phase: channel_config.remove(BORDER_ROUTERS_KEY) decides the base
\* stylesheet and whether the view box grows.
BorderPhase(doc, config) ==
    LET channel == config.channel_config
        removed == [config EXCEPT !.channel_config = MapRemove(channel, BORDER_ROUTERS_KEY)]
    IN  IF /\ BORDER_ROUTERS_KEY \in DOMAIN channel
           /\ channel[BORDER_ROUTERS_KEY].t = "Boolean"
           /\ channel[BORDER_ROUTERS_KEY].b
        THEN [doc |-> [doc EXCEPT !.style = StyleBase,
                                  !.view_box = ViewBoxInsertEdges(@)],
              config |-> removed]
        ELSE [doc |-> [doc EXCEPT !.style = StyleDefault], config |-> removed]

\* The processing group stored for a core id: processing_group.g().get(id)
ProcessingGroupOf(doc, id) ==
    LET n == CHOOSE j \in 1..Len(doc.processing_group) : doc.processing_group[j].id = id
    IN  doc.processing_group[n]

\* for (i, core) in manycore.cores().list().iter().enumerate() { ... push(...) }
RECURSIVE OverlayLoop(_, _, _, _, _, _)
OverlayLoop(doc, mc, config, links_with_load, routing_configuration, i) ==
    IF i >= Len(mc.cores) THEN doc
    ELSE LET core == mc.cores[i + 1]
             made == InformationLayerNew(config, core, doc.style,
                                         get_core_loads(links_with_load, i),
                                         ProcessingGroupOf(doc, core.id),
                                         routing_configuration)
         IN  OverlayLoop([doc EXCEPT !.groups = Append(@, made.layer),
                                     !.style = made.css],
                         mc, config, links_with_load, routing_configuration, i + 1)

\* The bug of running the overlay loop whatever the configuration holds.
OverlayPhaseAlways(doc, mc, config, not_empty, links_with_load, routing_configuration) ==
    OverlayLoop(doc, mc, config, links_with_load, routing_configuration, 0)

\* Overlay phase: if not_empty_configuration { for ... }
OverlayPhase(doc, mc, config, not_empty, links_with_load, routing_configuration) ==
    IF not_empty
    THEN OverlayLoop(doc, mc, config, links_with_load, routing_configuration, 0)
    ELSE doc

\* quick_xml::se::to_string_with_root("g", &groups), as a sequence of
\* characters in which every layer's markup is one item.
ToStringWithRoot(groups) ==
    IF groups = <<>> THEN <<"<", "g", "/", ">">>
    ELSE <<"<", "g", ">">> \o groups \o <<"<", "/", "g", ">">>

\* InformationGroup::update_string
update_string(groups) ==
    LET dummy_xml == ToStringWithRoot(groups)
        dummy_len == Len(dummy_xml)
    IN  IF dummy_len > 6 THEN SubSeq(dummy_xml, 4, dummy_len - 4) ELSE <<>>

\* Emit phase: Ok(UpdateResult { style, information_group, view_box })
UpdateResult(doc) ==
    [style             |-> doc.style,
     information_group |-> update_string(doc.groups),
     view_box          |-> ViewBoxString(doc.view_box)]

\* The bug of clearing the document before the routing call has succeeded.
update_reset_before_routing(doc, mc, config) ==
    LET not_empty == not_empty_configuration(config)
        routing   == RoutingPhase(mc, config)
        cleared   == ResetPhase(doc)
    IN  IF ~routing.ok
        THEN [svg |-> cleared, configuration |-> routing.config,
              result |-> [ok |-> FALSE, error |-> routing.error]]
        ELSE LET border  == BorderPhase(cleared, routing.config)
                 overlay == OverlayPhase(border.doc, mc, border.config, not_empty,
                                         routing.links_with_load,
                                         routing.routing_configuration)
             IN  [svg |-> overlay, configuration |-> border.config,
                  result |-> [ok |-> TRUE, payload |-> UpdateResult(overlay)]]

\* The whole call: the document and the configuration it leaves, and what
\* it returns.
update_configurable_information(doc, mc, config) ==
    LET not_empty == not_empty_configuration(config)
        routing   == RoutingPhase(mc, config)
    IN  IF ~routing.ok
        THEN [svg |-> doc, configuration |-> routing.config,
              result |-> [ok |-> FALSE, error |-> routing.error]]
        ELSE LET border  == BorderPhase(ResetPhase(doc), routing.config)
                 overlay == OverlayPhase(border.doc, mc, border.config, not_empty,
                                         routing.links_with_load,
                                         routing.routing_configuration)
             IN  [svg |-> overlay, configuration |-> border.config,
                  result |-> [ok |-> TRUE, payload |-> UpdateResult(overlay)]]

(***************************************************************************)
(* Reconfiguration calls on one document                                   *)
(***************************************************************************)

EmptyMap == MakeMap([k \in {} |-> None])

\* Core configurations: identity line and fill, or coordinates label and
\* coloured text.
CoreIdFill ==
    MakeMap([k \in {ID_KEY, "@load"} |->
                IF k = ID_KEY THEN Some(Text("ID")) ELSE Some(Fill(LoadColours))])

CoreCoordinatesColoured ==
    MakeMap([k \in {COORDINATES_KEY, "@load"} |->
                IF k = COORDINATES_KEY THEN Some(Text("Coordinates"))
                ELSE Some(ColouredText("Load", LoadColours))])

RouterAge == MakeMap([k \in {"@age"} |-> Some(Text("Age"))])

\* The routing key holds a directive (supported or not) or an entry of the
\* wrong variant; the border key holds a Boolean or an entry of the wrong variant.
ChannelConfigurations ==
    {MakeMap([k \in {ROUTING_KEY, BORDER_ROUTERS_KEY} |->
                IF k = ROUTING_KEY THEN r ELSE b]) :
        r \in {None, Some(Routing("RowFirst")), Some(Routing("Unsupported"))},
        b \in {None, Some(Boolean(TRUE)), Some(Boolean(FALSE)), Some(Text("Borders"))}}
    \cup {MakeMap([k \in {ROUTING_KEY} |-> Some(Boolean(TRUE))])}

\* Channel configurations that also hold an entry of their own, next to a
\* routing directive (supported or not) and the border key.
ChannelWithLoad ==
    {MakeMap([k \in {ROUTING_KEY, BORDER_ROUTERS_KEY, "@load"} |->
                CASE k = ROUTING_KEY -> Some(Routing(a))
                  [] k = BORDER_ROUTERS_KEY -> Some(Boolean(TRUE))
                  [] k = "@load" -> Some(Text("Load"))]) :
        a \in {"RowFirst", "Unsupported"}}

\* The configurations the caller passes: every channel configuration with
\* empty core and router configurations and with non-empty ones, the
\* second core configuration on its own, and the channel configurations
\* with an entry of their own.
Configurations ==
    [core_config : {EmptyMap}, router_config : {EmptyMap},
     channel_config : ChannelConfigurations]
    \cup
    [core_config : {CoreIdFill}, router_config : {RouterAge},
     channel_config : ChannelConfigurations]
    \cup
    [core_config : {CoreCoordinatesColoured}, router_config : {EmptyMap},
     channel_config : {EmptyMap}]
    \cup
    [core_config : {EmptyMap}, router_config : {RouterAge},
     channel_config : ChannelWithLoad]

\* Configuration::default()
EmptyConfiguration ==
    [core_config |-> EmptyMap, router_config |-> EmptyMap, channel_config |-> EmptyMap]

\* The parts of the document a reconfiguration call rebuilds.
Dynamic(doc) == [groups |-> doc.groups, style |-> doc.style, view_box |-> doc.view_box]

NoCall == [cfg_in |-> EmptyConfiguration, result |-> [ok |-> FALSE, error |-> "no call"]]

Init ==
    /\ \E rows \in 1..MaxArchRows : manycore = Manycore(rows, 2)
    /\ svg = SVGFrom(manycore)
    /\ configuration = EmptyConfiguration
    /\ hist = [calls |-> 0, again |-> FALSE, last |-> NoCall, prev |-> NoCall,
               pre |-> Dynamic(svg)]
    /\ bs = Idle
    /\ gs = Idle
    /\ ge = Idle

\* svg.update_configurable_information(&mut manycore, &mut configuration)
\* with the Configuration object holding config when the call starts.
Call(config, again) ==
    LET out == update_configurable_information(svg, manycore, config)
    IN  /\ svg' = out.svg
        /\ configuration' = out.configuration
        /\ hist' = [calls |-> Min(hist.calls + 1, 2),
                    again |-> again,
                    last  |-> [cfg_in |-> config, result |-> out.result],
                    prev  |-> hist.last,
                    pre   |-> Dynamic(svg)]
        /\ UNCHANGED <<bs, gs, ge, manycore>>

\* The caller fills a Configuration and calls.
Reconfigure == \E config \in Configurations : Call(config, FALSE)

\* The caller calls again with the Configuration object of the last call, as
\* that call left it.
ReconfigureAgain ==
    /\ hist.calls > 0
    /\ Call(configuration, TRUE)

Next == Reconfigure \/ ReconfigureAgain

Spec == Init /\ [][Next]_vars

(***************************************************************************)
(* Properties of the reconfiguration call                                  *)
(***************************************************************************)

HasRoutingDirective(config) ==
    /\ ROUTING_KEY \in DOMAIN config.channel_config
    /\ config.channel_config[ROUTING_KEY].t = "Routing"

ShowsBorderRouters(config) ==
    /\ BORDER_ROUTERS_KEY \in DOMAIN config.channel_config
    /\ config.channel_config[BORDER_ROUTERS_KEY].t = "Boolean"
    /\ config.channel_config[BORDER_ROUTERS_KEY].b

WellTyped(config) ==
    /\ ROUTING_KEY \in DOMAIN config.channel_config => HasRoutingDirective(config)
    /\ BORDER_ROUTERS_KEY \in DOMAIN config.channel_config
          => config.channel_config[BORDER_ROUTERS_KEY].t = "Boolean"

BothSucceeded == hist.calls = 2 /\ hist.last.result.ok /\ hist.prev.result.ok

C3_RoutingFailure ==
    (hist.calls > 0 /\ HasRoutingDirective(hist.last.cfg_in)
        /\ ~Route(manycore, hist.last.cfg_in.channel_config[ROUTING_KEY].algorithm).ok)
    => /\ hist.last.result = [ok |-> FALSE, error |-> "RoutingError"]
       /\ Dynamic(svg) = hist.pre

\* A failed call left a document that showed an overlay and border routers.
C3_Witness ==
    /\ hist.calls = 2
    /\ ~hist.last.result.ok
    /\ hist.pre.groups # <<>>
    /\ hist.pre.style[1] = StyleBase[1]
    /\ ShowsBorderRouters(hist.prev.cfg_in)
    /\ ~ShowsBorderRouters(hist.last.cfg_in)
    /\ Dynamic(svg) = hist.pre

\* C4: what a successful call returns and leaves in the document is what
\* the same call returns and leaves on a document just built from the
\* architecture: earlier calls have no influence.
C4_NoHistory ==
    (hist.calls > 0 /\ hist.last.result.ok) =>
        LET fresh == update_configurable_information(SVGFrom(manycore), manycore,
                                                     hist.last.cfg_in)
        IN  /\ hist.last.result = fresh.result
            /\ Dynamic(svg) = Dynamic(fresh.svg)

\* A successful call followed a successful call with another configuration
\* that had left another overlay, stylesheet and view box.
C4_Witness ==
    /\ BothSucceeded
    /\ hist.pre.groups # <<>>
    /\ svg.groups # <<>>
    /\ hist.pre.groups # svg.groups
    /\ hist.pre.style # svg.style
    /\ hist.pre.view_box # svg.view_box

AllEmpty(config) ==
    IsEmpty(config.core_config) /\ IsEmpty(config.router_config)
        /\ IsEmpty(config.channel_config)

\* C5: a call whose core, router and channel configurations are all empty
\* leaves no overlay group and returns an empty overlay string.
C5_EmptyConfiguration ==
    (hist.calls > 0 /\ AllEmpty(hist.last.cfg_in)) =>
        /\ hist.last.result.ok
        /\ svg.groups = <<>>
        /\ hist.last.result.payload.information_group = <<>>

\* An empty configuration cleared the overlay an earlier call had produced.
C5_Witness ==
    /\ hist.calls = 2
    /\ AllEmpty(hist.last.cfg_in)
    /\ hist.pre.groups # <<>>
    /\ svg.groups = <<>>

\* C6: after a successful call the view box is expanded and the stylesheet
\* starts from the extended base exactly when the call's channel
\* configuration held the border key as Boolean(true); otherwise the view
\* box is the base extent and the stylesheet starts from the minimal base.
C6_BorderRouters ==
    (hist.calls > 0 /\ hist.last.result.ok) =>
        LET base == ViewBoxReset(svg.width, svg.height)
        IN  IF ShowsBorderRouters(hist.last.cfg_in)
            THEN /\ svg.view_box = ViewBoxInsertEdges(base)
                 /\ svg.view_box # base
                 /\ svg.style[1] = StyleBase[1]
                 /\ hist.last.result.payload.view_box = ViewBoxString(ViewBoxInsertEdges(base))
            ELSE /\ svg.view_box = base
                 /\ svg.style[1] = StyleDefault[1]
                 /\ hist.last.result.payload.view_box = ViewBoxString(base)

\* A call holding a non-Boolean entry under the border key followed one that
\* showed the border routers, and restored the base view box and stylesheet.
C6_Witness ==
    /\ BothSucceeded
    /\ ShowsBorderRouters(hist.prev.cfg_in)
    /\ BORDER_ROUTERS_KEY \in DOMAIN hist.last.cfg_in.channel_config
    /\ hist.last.cfg_in.channel_config[BORDER_ROUTERS_KEY].t = "Text"
    /\ svg.view_box = ViewBoxReset(svg.width, svg.height)
    /\ hist.pre.view_box # svg.view_box

\* The static grid of the document, built once by the grid composer.
Static(doc) ==
    [processing_group    |-> doc.processing_group,
     connections_group   |-> doc.connections_group,
     sinks_sources_group |-> doc.sinks_sources_group,
     rows                |-> doc.rows,
     columns             |-> doc.columns,
     width               |-> doc.width,
     height              |-> doc.height,
     top_left            |-> doc.top_left]

WithoutKeys(map, keys) == [k \in (DOMAIN map) \ keys |-> map[k]]

\* C15 as stated: every call removes the routing key and the border key
\* from the caller's channel configuration, also when the routing call
\* fails and when the entry has the wrong variant, and leaves every other
\* entry alone; a successful call runs the overlay phase whenever the
\* configuration was non-empty when the call started.
C15_Original ==
    hist.calls > 0 =>
        /\ configuration.core_config = hist.last.cfg_in.core_config
        /\ configuration.router_config = hist.last.cfg_in.router_config
        /\ configuration.channel_config =
               WithoutKeys(hist.last.cfg_in.channel_config, {ROUTING_KEY, BORDER_ROUTERS_KEY})
        /\ (hist.last.result.ok /\ ~AllEmpty(hist.last.cfg_in)
               => Len(svg.groups) = Len(manycore.cores))

\* C15 amended: every call removes the routing key, also when the routing
\* call fails and when the entry has the wrong variant; a call whose routing
\* step does not fail also removes the border key, whatever its variant,
\* while a call whose routing step fails returns before the border step and
\* leaves the border key in place. Every other entry is left alone, and a
\* successful call runs the overlay phase exactly when the configuration
\* was non-empty when the call started.
C15_KeysRemoved ==
    hist.calls > 0 =>
        /\ configuration.core_config = hist.last.cfg_in.core_config
        /\ configuration.router_config = hist.last.cfg_in.router_config
        /\ configuration.channel_config =
               WithoutKeys(hist.last.cfg_in.channel_config,
                           IF hist.last.result.ok
                           THEN {ROUTING_KEY, BORDER_ROUTERS_KEY}
                           ELSE {ROUTING_KEY})
        /\ (hist.last.result.ok =>
               Len(svg.groups) = (IF AllEmpty(hist.last.cfg_in) THEN 0
                                  ELSE Len(manycore.cores)))

\* A configuration holding nothing but a routing directive was emptied by
\* the call, which still produced one overlay group per core.
C15_Witness ==
    /\ hist.calls > 0
    /\ hist.last.result.ok
    /\ IsEmpty(hist.last.cfg_in.core_config)
    /\ IsEmpty(hist.last.cfg_in.router_config)
    /\ DOMAIN hist.last.cfg_in.channel_config = {ROUTING_KEY}
    /\ HasRoutingDirective(hist.last.cfg_in)
    /\ AllEmpty(configuration)
    /\ Len(svg.groups) = Len(manycore.cores)
    /\ svg.groups # <<>>

====
